---- MODULE Spec2Model ----
(***************************************************************************)
(* Model of src/app.py: the strategy registry, the dispatch boundary       *)
(* (scrape_manager), the lazily launched shared browser (get_browser), the *)
(* static extractors and the network-interception extractor                *)
(* (advanced_playwright_scraper).                                          *)
(*                                                                         *)
(* Python strings that the code inspects (hosts, response URLs, header     *)
(* values) are sequences of one-character strings, so that replace(),      *)
(* `in`, lower() and int() are computed and not assumed.                   *)
(*                                                                         *)
(* Requests run as asyncio coroutines: one action is one run of a          *)
(* coroutine between two suspension points (awaits that really suspend).   *)
(*                                                                         *)
(* The registry names scrape_mixkit_direct (line 199), whose body is not   *)
(* in app.py; it is modelled from the specification of the static         *)
(* extractors (section 4.2) and no request of Spec or SpecRank goes to it. *)
(***************************************************************************)
EXTENDS Integers, Sequences, FiniteSets, TLC

(* ------------------------------------------------------------------ *)
(* Bounds of the model                                                 *)
(* ------------------------------------------------------------------ *)
NumReqs == 2          \* concurrent requests in Spec
MaxObserved == 1      \* responses delivered to one request in Spec
MaxRankObserved == 3  \* responses delivered to the request in SpecRank

Reqs == 1..NumReqs

(* ------------------------------------------------------------------ *)
(* Python str operations on character sequences                        *)
(* ------------------------------------------------------------------ *)
\* s[i:i+len(old)] == old
StartsAt(s, old, i) ==
    /\ i + Len(old) - 1 <= Len(s)
    /\ SubSeq(s, i, i + Len(old) - 1) = old

\* s.replace(old, new): leftmost non-overlapping occurrences, no rescan
RECURSIVE ReplaceFrom(_, _, _, _)
ReplaceFrom(s, old, new, i) ==
    IF i > Len(s) THEN <<>>
    ELSE IF StartsAt(s, old, i)
         THEN new \o ReplaceFrom(s, old, new, i + Len(old))
         ELSE <<s[i]>> \o ReplaceFrom(s, old, new, i + 1)

str_replace(s, old, new) == ReplaceFrom(s, old, new, 1)

\* sub in s
Contains(s, sub) == \E i \in 1..(Len(s) - Len(sub) + 1) : StartsAt(s, sub, i)

\* c in s, for one character
HasChar(s, c) == \E i \in 1..Len(s) : s[i] = c

\* the least index >= from whose character is in chars, Len(s)+1 if none
RECURSIVE FindAny(_, _, _)
FindAny(s, chars, from) ==
    IF from > Len(s) THEN Len(s) + 1
    ELSE IF s[from] \in chars THEN from
    ELSE FindAny(s, chars, from + 1)

UpperToLower ==
    [c \in {"U", "R", "L", "V", "M", "P", "W", "X"} |->
        CASE c = "U" -> "u" [] c = "R" -> "r" [] c = "L" -> "l"
          [] c = "V" -> "v" [] c = "M" -> "m" [] c = "P" -> "p"
          [] c = "W" -> "w" [] c = "X" -> "x"]

\* s.lower()
str_lower(s) ==
    [i \in 1..Len(s) |-> IF s[i] \in DOMAIN UpperToLower THEN UpperToLower[s[i]] ELSE s[i]]

Digits == {"0", "1", "2", "3", "4", "5", "6", "7", "8", "9"}

DigitVal ==
    [c \in Digits |->
        CASE c = "0" -> 0 [] c = "1" -> 1 [] c = "2" -> 2 [] c = "3" -> 3
          [] c = "4" -> 4 [] c = "5" -> 5 [] c = "6" -> 6 [] c = "7" -> 7
          [] c = "8" -> 8 [] c = "9" -> 9]

RECURSIVE DigitsValue(_, _)
DigitsValue(s, n) ==
    IF n = 0 THEN 0 ELSE 10 * DigitsValue(s, n - 1) + DigitVal[s[n]]

\* int(s) of a str: an optional sign, then one or more digits; anything else
\* raises ValueError
int_of_str(s) ==
    LET signed == Len(s) >= 1 /\ s[1] \in {"-", "+"}
        body   == IF signed THEN SubSeq(s, 2, Len(s)) ELSE s
        ok     == Len(body) >= 1 /\ \A i \in 1..Len(body) : body[i] \in Digits
    IN  IF ~ok THEN [ok |-> FALSE, val |-> 0]
        ELSE [ok |-> TRUE,
              val |-> IF signed /\ s[1] = "-"
                      THEN 0 - DigitsValue(body, Len(body))
                      ELSE DigitsValue(body, Len(body))]

(* ------------------------------------------------------------------ *)
(* urllib.parse.urlparse, as far as scrape_manager uses it (.netloc)   *)
(* ------------------------------------------------------------------ *)
Letters ==
    {"a", "b", "c", "d", "e", "h", "i", "k", "m", "o", "p", "r", "s", "t",
     "v", "w", "x", "y", "W", "X", "P"}

SchemeChars == Letters \cup Digits \cup {"+", "-", "."}

\* [error |-> the parse raises ValueError, netloc |-> the network location]
urlparse(u) ==
    LET colon     == FindAny(u, {":"}, 1)
        hasScheme == /\ colon <= Len(u)
                     /\ colon > 1
                     /\ u[1] \in Letters
                     /\ \A i \in 1..(colon - 1) : u[i] \in SchemeChars
        rest      == IF hasScheme THEN SubSeq(u, colon + 1, Len(u)) ELSE u
        hasNetloc == Len(rest) >= 2 /\ rest[1] = "/" /\ rest[2] = "/"
        delim     == FindAny(rest, {"/", "?", "#"}, 3)
        netloc    == IF hasNetloc THEN SubSeq(rest, 3, delim - 1) ELSE <<>>
        \* "Invalid IPv6 URL": one bracket without the other
        bad       == hasNetloc /\ (HasChar(netloc, "[") # HasChar(netloc, "]"))
    IN  [error |-> bad, netloc |-> netloc]

(* ------------------------------------------------------------------ *)
(* The strategy registry                                               *)
(* ------------------------------------------------------------------ *)
WWW == <<"w","w","w",".">>
mixkit_co == <<"m","i","x","k","i","t",".","c","o">>
xvideos_com == <<"x","v","i","d","e","o","s",".","c","o","m">>
pixabay_com == <<"p","i","x","a","b","a","y",".","c","o","m">>
xhamster_com == <<"x","h","a","m","s","t","e","r",".","c","o","m">>

RegistryKeys == {mixkit_co, xvideos_com, pixabay_com, xhamster_com}

STRATEGY_MAP ==
    [k \in RegistryKeys |->
        CASE k = mixkit_co    -> "scrape_mixkit_direct"
          [] k = xvideos_com  -> "advanced_playwright_scraper"
          [] k = pixabay_com  -> "advanced_playwright_scraper"
          [] k = xhamster_com -> "scrape_xhamster_direct"]

\* the functions app.py defines
StaticExtractors == {"scrape_xvideos_direct", "scrape_xhamster_direct"}
DefinedExtractors == StaticExtractors \cup {"advanced_playwright_scraper"}

\* asyncio.iscoroutinefunction
iscoroutinefunction(f) == f = "advanced_playwright_scraper"

\* domain = urlparse(url).netloc.replace("www.", "")
Normalize(netloc) == str_replace(netloc, WWW, <<>>)

(* ------------------------------------------------------------------ *)
(* Exceptions and extractor outcomes                                   *)
(* ------------------------------------------------------------------ *)
\* an exception: its class and str(e), a sequence of text pieces
Exc(type, msg) == [type |-> type, msg |-> msg]
NoExc == Exc("None", <<>>)

\* what a call ends in: a returned value or a raised exception
Returned(v) == [raised |-> FALSE, exc |-> NoExc, value |-> <<v>>]
Raised(e) == [raised |-> TRUE, exc |-> e, value |-> <<>>]
\* no extractor was called
NotCalled == [raised |-> FALSE, exc |-> NoExc, value |-> <<>>]

\* str(HTTPException(status_code, detail)) is "<status_code>: <detail>"
StatusText == [c \in {400, 404, 500} |->
                 CASE c = 400 -> "400" [] c = 404 -> "404" [] c = 500 -> "500"]
HTTPException(code, detail) ==
    [type |-> "HTTPException", msg |-> <<StatusText[code], ": ">> \o detail]

InvalidUrlDetail == <<"Invalid URL format.">>
UnsupportedDetail(domain) == <<"Website '">> \o domain \o <<"' is not supported yet.">>
NoQualitiesDetail == <<"Scraping finished, but no quality links were found.">>

(* ------------------------------------------------------------------ *)
(* Static extractors                                                   *)
(* ------------------------------------------------------------------ *)
\* A fetched page, as far as the extractors' patterns see it.
\*   http: "ok", or "error" (requests.get or raise_for_status raises)
\*   ld:   the JSON-LD script tag is "absent", holds "invalid" JSON, or an "object"
\*   data: the JSON object, a function from the keys it has to their values
JsonKeys == {"name", "thumbnailUrl", "contentUrl"}

JsonObject(n, t, c) ==
    LET opt == [name |-> n, thumbnailUrl |-> t, contentUrl |-> c]
    IN  [k \in {j \in JsonKeys : opt[j] # <<>>} |-> opt[k][1]]

\* each key absent (<<>>) or present with a value; contentUrl may be the empty string
JsonObjects ==
    { JsonObject(n, t, c) :
        n \in {<<>>, <<"Clip">>},
        t \in {<<>>, <<(<<"t">>)>>},
        c \in {<<>>, <<(<<>>)>>, <<(<<"X">>)>>} }

Page(http, ld, data) == [http |-> http, ld |-> ld, data |-> data]
NoData == JsonObject(<<>>, <<>>, <<>>)

Pages ==
    {Page("error", "absent", NoData), Page("ok", "absent", NoData),
     Page("ok", "invalid", NoData)}
    \cup { Page("ok", "object", d) : d \in JsonObjects }

\* dict.get(key, default)
dict_get(d, k, default) == IF k \in DOMAIN d THEN d[k] ELSE default

HLS == [kind |-> "HLS Playlist", n |-> 0]
\* f"Quality {n}"
Quality(n) == [kind |-> "Quality", n |-> n]

\* the playlist read from the key 'embedUrl' of the JSON-LD object
scrape_xhamster_direct_embed_url(page) ==
    IF page.http = "error" THEN Raised(Exc("HTTPError", <<"request failed">>))
    ELSE IF page.ld = "absent"
    THEN Raised(Exc("ValueError", <<"Could not find video JSON-LD data in the page.">>))
    ELSE IF page.ld = "invalid"
    THEN Raised(Exc("JSONDecodeError", <<"Expecting value">>))
    ELSE LET data      == page.data
             title     == dict_get(data, "name", "Untitled")
             thumbnail == dict_get(data, "thumbnailUrl", <<>>)
             m3u8_url  == dict_get(data, "embedUrl", <<>>)
             qualities == IF m3u8_url # <<>> THEN << <<HLS, m3u8_url>> >> ELSE <<>>
         IN  Returned([title |-> title, qualities |-> qualities, thumbnail |-> thumbnail])

scrape_xhamster_direct(page) ==
    IF page.http = "error" THEN Raised(Exc("HTTPError", <<"request failed">>))
    ELSE IF page.ld = "absent"
    THEN Raised(Exc("ValueError", <<"Could not find video JSON-LD data in the page.">>))
    ELSE IF page.ld = "invalid"
    THEN Raised(Exc("JSONDecodeError", <<"Expecting value">>))
    ELSE LET data      == page.data
             title     == dict_get(data, "name", "Untitled")
             thumbnail == dict_get(data, "thumbnailUrl", <<>>)
             m3u8_url  == dict_get(data, "contentUrl", <<>>)
             qualities == IF m3u8_url # <<>> THEN << <<HLS, m3u8_url>> >> ELSE <<>>
         IN  Returned([title |-> title, qualities |-> qualities, thumbnail |-> thumbnail])

\* For scrape_xvideos_direct the page's data holds the groups its three
\* patterns matched: name (setVideoTitle), thumbnailUrl (setVideoUrlPoster),
\* contentUrl (setVideoHLS); a pattern that does not match leaves its key out.
scrape_xvideos_direct(page) ==
    IF page.http = "error" THEN Raised(Exc("HTTPError", <<"request failed">>))
    ELSE LET data      == page.data
             title     == dict_get(data, "name", "Untitled Video")
             thumbnail == dict_get(data, "thumbnailUrl", <<>>)
             m3u8_url  == dict_get(data, "contentUrl", <<>>)
             qualities == IF m3u8_url # <<>> THEN << <<HLS, m3u8_url>> >> ELSE <<>>
         IN  Returned([title |-> title, qualities |-> qualities, thumbnail |-> thumbnail])

\* The body of scrape_mixkit_direct is not in app.py. Section 4.2 of the
\* specification: a non-2xx status is a hard failure; a pattern that is absent
\* leaves its field empty, the title falls back to the sentinel, and an absent
\* resource URL gives empty qualities.
scrape_mixkit_direct(page) ==
    IF page.http = "error" THEN Raised(Exc("HTTPError", <<"request failed">>))
    ELSE LET data      == page.data
             title     == dict_get(data, "name", "Untitled")
             thumbnail == dict_get(data, "thumbnailUrl", <<>>)
             media_url == dict_get(data, "contentUrl", <<>>)
             qualities == IF media_url # <<>> THEN << <<HLS, media_url>> >> ELSE <<>>
         IN  Returned([title |-> title, qualities |-> qualities, thumbnail |-> thumbnail])

\* scraper_function(url) for a function that is not a coroutine function
CallSync(f, page) ==
    CASE f = "scrape_xhamster_direct" -> scrape_xhamster_direct(page)
      [] f = "scrape_xvideos_direct"  -> scrape_xvideos_direct(page)
      [] f = "scrape_mixkit_direct"   -> scrape_mixkit_direct(page)

(* ------------------------------------------------------------------ *)
(* Interception extractor: the observer and the ranking                *)
(* ------------------------------------------------------------------ *)
EXT_MP4 == <<".","m","p","4">>
EXT_M3U8 == <<".","m","3","u","8">>
EXT_WEBM == <<".","w","e","b","m">>
T_VIDEO == <<"v","i","d","e","o">>
T_MPEGURL == <<"m","p","e","g","u","r","l">>
T_OCTET == <<"b","i","n","a","r","y","/","o","c","t","e","t","-","s","t","r","e","a","m">>

MinSize == 100000
TopN == 3

\* a response: its URL and its headers, a function from the header names it
\* has to their values
Response(u, ct, cl) ==
    LET opt == [h \in {"content-type", "content-length"} |->
                  IF h = "content-type" THEN ct ELSE cl]
    IN  [url |-> u,
         headers |-> [h \in {j \in DOMAIN opt : opt[j] # <<>>} |-> opt[h][1]]]

is_video_url(response) ==
    \E ext \in {EXT_MP4, EXT_M3U8, EXT_WEBM} : Contains(response.url, ext)

is_video_type(response) ==
    LET content_type == str_lower(dict_get(response.headers, "content-type", <<>>))
    IN  \/ Contains(content_type, T_VIDEO)
        \/ Contains(content_type, T_MPEGURL)
        \/ Contains(content_type, T_OCTET)

\* int(response.headers.get("content-length", 0)); ok is FALSE when int() raises
declared_size(response) ==
    IF "content-length" \in DOMAIN response.headers
    THEN int_of_str(response.headers["content-length"])
    ELSE [ok |-> TRUE, val |-> 0]

\* the comparison of line 138 written size >= 100000
handle_response_body_inclusive(vr, response) ==
    IF is_video_url(response) \/ is_video_type(response)
    THEN LET size == declared_size(response)
         IN  IF size.ok /\ size.val >= MinSize
             THEN Append(vr, [url |-> response.url, size |-> size.val])
             ELSE vr
    ELSE vr

\* the body of handle_response: video_requests after one response
handle_response_body(vr, response) ==
    IF is_video_url(response) \/ is_video_type(response)
    THEN LET size == declared_size(response)
         IN  IF size.ok /\ size.val > MinSize
             THEN Append(vr, [url |-> response.url, size |-> size.val])
             ELSE vr
    ELSE vr

\* list.sort(key=size, reverse=True): stable, equal sizes keep their order
RECURSIVE InsertDesc(_, _)
InsertDesc(sorted, x) ==
    IF sorted = <<>> THEN <<x>>
    ELSE IF Head(sorted).size >= x.size
         THEN <<Head(sorted)>> \o InsertDesc(Tail(sorted), x)
         ELSE <<x>> \o sorted

RECURSIVE SortDesc(_)
SortDesc(vr) ==
    IF vr = <<>> THEN <<>>
    ELSE InsertDesc(SortDesc(SubSeq(vr, 1, Len(vr) - 1)), vr[Len(vr)])

\* video_requests[:3]
Top(vr) == SubSeq(vr, 1, IF Len(vr) < TopN THEN Len(vr) ELSE TopN)

\* qualities[label] = url on a dict kept as a sequence of <<label, url>>:
\* a label already there keeps its place and takes the new url
dict_set(q, label, u) ==
    IF \E j \in 1..Len(q) : q[j][1] = label
    THEN [j \in 1..Len(q) |-> IF q[j][1] = label THEN <<label, u>> ELSE q[j]]
    ELSE Append(q, <<label, u>>)

\* the playlist label given to the largest candidate only
LabelOf_first_only(i, video) ==
    IF i = 0 /\ Contains(video.url, EXT_M3U8) THEN HLS ELSE Quality(i + 1)

\* the label of the candidate at 0-based position i
LabelOf(i, video) == IF Contains(video.url, EXT_M3U8) THEN HLS ELSE Quality(i + 1)

RECURSIVE BuildQualities(_, _)
BuildQualities(top, n) ==
    IF n = 0 THEN <<>>
    ELSE dict_set(BuildQualities(top, n - 1), LabelOf(n - 1, top[n]), top[n].url)

\* lines 175-188: the result from the captured candidates
RankResult(title, vr) ==
    IF vr = <<>> THEN [title |-> title, qualities |-> <<>>]
    ELSE LET top == Top(SortDesc(vr))
         IN  [title |-> title, qualities |-> BuildQualities(top, Len(top))]

(* ------------------------------------------------------------------ *)
(* scrape_manager, lines 238-245: what the caller receives             *)
(* ------------------------------------------------------------------ *)
\* the try body after the extractor has ended
TryBody(out) ==
    IF out.raised THEN out
    ELSE IF out.value[1].qualities = <<>>
         THEN Raised(HTTPException(404, NoQualitiesDetail))
         ELSE out

\* the except clause written `except ValueError as e`: any other exception
\* leaves scrape_manager and the server answers with its own plain 500
Outward_value_error_only(out) ==
    LET t == TryBody(out)
    IN  IF t.raised
        THEN IF t.exc.type = "ValueError"
             THEN [status |-> 500, detail |-> t.exc.msg, result |-> <<>>]
             ELSE [status |-> 500, detail |-> <<"Internal Server Error">>, result |-> <<>>]
        ELSE [status |-> 200, detail |-> <<>>, result |-> t.value]

\* except Exception as e: HTTPException is an Exception
Outward(out) ==
    LET t == TryBody(out)
    IN  IF t.raised
        THEN [status |-> 500, detail |-> t.exc.msg, result |-> <<>>]
        ELSE [status |-> 200, detail |-> <<>>, result |-> t.value]

(* ------------------------------------------------------------------ *)
(* Inputs                                                              *)
(* ------------------------------------------------------------------ *)
HTTP == <<"h","t","t","p",":","/","/">>
PATH_V == <<"/","v">>

U_pixabay == HTTP \o pixabay_com \o PATH_V
U_www_xhamster == HTTP \o WWW \o xhamster_com \o PATH_V
U_other == HTTP \o <<"x",".","c","o">> \o PATH_V
U_bracket == HTTP \o <<"[">> \o pixabay_com \o PATH_V
U_noscheme == pixabay_com \o PATH_V

\* the URLs requests carry in Spec
Urls == {U_pixabay, U_www_xhamster, U_other, U_bracket, U_noscheme}

\* the URLs of SpecDispatch: schemes and hosts around the registry keys
H_Pixabay == <<"P","i","x","a","b","a","y",".","c","o","m">>
H_inner_www == <<"p","i","x","a">> \o WWW \o <<"b","a","y",".","c","o","m">>
H_port == pixabay_com \o <<":","8","0">>
H_x_co == <<"x",".","c","o">>

DispatchHosts ==
    {pixabay_com, xvideos_com, xhamster_com, mixkit_co,
     WWW \o pixabay_com, WWW \o WWW \o pixabay_com, H_inner_www,
     pixabay_com \o WWW, <<"W","W","W",".">> \o pixabay_com, H_Pixabay,
     <<"x">> \o pixabay_com, pixabay_com \o <<".">> \o H_x_co, H_port,
     H_x_co, WWW \o H_x_co, WWW, <<>>,
     <<"[">> \o pixabay_com, pixabay_com \o <<"]">>}

DispatchUrls ==
    {s \o h \o PATH_V : s \in {HTTP, <<>>}, h \in DispatchHosts}

CL_500000 == <<"5","0","0","0","0","0">>
CL_200000 == <<"2","0","0","0","0","0">>
CL_150000 == <<"1","5","0","0","0","0">>
CL_100000 == <<"1","0","0","0","0","0">>
CL_50000 == <<"5","0","0","0","0">>
CL_900000 == <<"9","0","0","0","0","0">>
CL_12x == <<"1","2","x">>

CT_mp4 == <<"v","i","d","e","o","/","m","p","4">>
CT_mpegURL == <<"a","p","p","l","i","c","a","t","i","o","n","/","x","-","m","p","e","g","U","R","L">>
CT_html == <<"t","e","x","t","/","h","t","m","l">>

\* a candidate by its content type only
R_a_video == Response(<<"a">>, <<CT_mp4>>, <<CL_500000>>)
R_b_m3u8 == Response(<<"b",".","m","3","u","8">>, <<CT_mpegURL>>, <<CL_150000>>)
R_c_m3u8 == Response(<<"c",".","m","3","u","8">>, <<>>, <<CL_200000>>)
R_d_webm == Response(<<"d",".","w","e","b","m">>, <<>>, <<CL_100000>>)
R_a_small == Response(<<"a",".","m","p","4">>, <<>>, <<CL_50000>>)
R_e_js == Response(<<"e",".","j","s">>, <<CT_html>>, <<CL_900000>>)
R_g_nolen == Response(<<"g",".","m","p","4">>, <<CT_mp4>>, <<>>)
R_h_badlen == Response(<<"h",".","m","p","4">>, <<>>, <<CL_12x>>)

\* the responses a page delivers in Spec, and in SpecRank
Responses == {R_a_video, R_c_m3u8, R_a_small}
RankResponses ==
    {R_a_video, R_b_m3u8, R_c_m3u8, R_d_webm, R_a_small, R_e_js, R_g_nolen,
     R_h_badlen}

PageTitle == "Stock Video"

\* lines 153-158
click_selectors ==
    <<"button[data-test-id='download-button-main']", "div[id*='player']",
      "div[class*='player']", "video">>

(* ------------------------------------------------------------------ *)
(* State                                                               *)
(* ------------------------------------------------------------------ *)
VARIABLES
    \* module globals and the engines they name
    browser,              \* 0 for None, else the engine the global names
    playwright_instance,  \* 0 for None, else the driver the global names
    launched,             \* engines launched so far; they are 1..launched
    started,              \* drivers started so far
    connected,            \* the launched engines with is_connected()
    \* one scrape_manager call per request
    pc,                   \* where the request's coroutine is suspended
    url, domain, scraper,
    fetched,              \* the page a static extractor fetched, <<>> if none
    invoked,              \* the extractor the request called, "none" if none
    outcome,              \* what that extractor ended in, NotCalled before
    status, detail, result,
    \* locals of advanced_playwright_scraper
    b, context, page, video_requests, title,
    selector,             \* the selector being tried, an index of click_selectors
    clicked,              \* a click has succeeded
    pending,              \* the exception in flight through the finally block
    observer,             \* handle_response is registered on the page
    observed,             \* every response delivered to handle_response
    late                  \* how many of them came after the settle wait had ended

globalVars == <<browser, playwright_instance, launched, started, connected>>
dispVars == <<url, domain, scraper, fetched, invoked>>
outVars == <<status, detail, result, outcome>>
sessVars == <<b, context, page>>
obsVars == <<video_requests, observer, observed, late>>
heurVars == <<title, selector, clicked, pending>>
vars == <<globalVars, pc, dispVars, outVars, sessVars, obsVars, heurVars>>

Init ==
    /\ browser = 0
    /\ playwright_instance = 0
    /\ launched = 0
    /\ started = 0
    /\ connected = {}
    /\ pc = [r \in Reqs |-> "idle"]
    /\ url = [r \in Reqs |-> <<>>]
    /\ domain = [r \in Reqs |-> <<>>]
    /\ scraper = [r \in Reqs |-> "none"]
    /\ fetched = [r \in Reqs |-> <<>>]
    /\ invoked = [r \in Reqs |-> "none"]
    /\ outcome = [r \in Reqs |-> NotCalled]
    /\ status = [r \in Reqs |-> 0]
    /\ detail = [r \in Reqs |-> <<>>]
    /\ result = [r \in Reqs |-> <<>>]
    /\ b = [r \in Reqs |-> 0]
    /\ context = [r \in Reqs |-> "none"]
    /\ page = [r \in Reqs |-> "none"]
    /\ video_requests = [r \in Reqs |-> <<>>]
    /\ title = [r \in Reqs |-> ""]
    /\ selector = [r \in Reqs |-> 0]
    /\ clicked = [r \in Reqs |-> FALSE]
    /\ pending = [r \in Reqs |-> NoExc]
    /\ observer = [r \in Reqs |-> FALSE]
    /\ observed = [r \in Reqs |-> <<>>]
    /\ late = [r \in Reqs |-> 0]

(* ------------------------------------------------------------------ *)
(* scrape_manager                                                      *)
(* ------------------------------------------------------------------ *)
\* the response the caller receives; the request is over
Respond(r, st, det, res, out) ==
    /\ pc' = [pc EXCEPT ![r] = "done"]
    /\ outcome' = [outcome EXCEPT ![r] = out]
    /\ status' = [status EXCEPT ![r] = st]
    /\ detail' = [detail EXCEPT ![r] = det]
    /\ result' = [result EXCEPT ![r] = res]

\* lines 238-245 applied to what the extractor ended in
Finish(r, out) ==
    LET o == Outward(out) IN Respond(r, o.status, o.detail, o.result, out)

\* lines 221-224: urlparse raises
scrape_manager_invalid(r, u) ==
    /\ pc[r] = "idle"
    /\ urlparse(u).error
    /\ url' = [url EXCEPT ![r] = u]
    /\ Respond(r, 400, InvalidUrlDetail, <<>>, NotCalled)
    /\ UNCHANGED <<globalVars, domain, scraper, fetched, invoked, sessVars, obsVars, heurVars>>

\* a lookup with a default, STRATEGY_MAP.get(domain, advanced_playwright_scraper):
\* an unregistered domain goes to the interception extractor
scrape_manager_unsupported_default(r, u) ==
    /\ pc[r] = "idle"
    /\ ~urlparse(u).error
    /\ LET d == Normalize(urlparse(u).netloc)
       IN  /\ d \notin DOMAIN STRATEGY_MAP
           /\ domain' = [domain EXCEPT ![r] = d]
    /\ url' = [url EXCEPT ![r] = u]
    /\ scraper' = [scraper EXCEPT ![r] = "advanced_playwright_scraper"]
    /\ invoked' = [invoked EXCEPT ![r] = "advanced_playwright_scraper"]
    /\ pc' = [pc EXCEPT ![r] = "start"]
    /\ UNCHANGED <<globalVars, fetched, outVars, sessVars, obsVars, heurVars>>

\* lines 226-227: the domain is no key of the registry
scrape_manager_unsupported(r, u) ==
    /\ pc[r] = "idle"
    /\ ~urlparse(u).error
    /\ LET d == Normalize(urlparse(u).netloc)
       IN  /\ d \notin DOMAIN STRATEGY_MAP
           /\ domain' = [domain EXCEPT ![r] = d]
           /\ Respond(r, 404, UnsupportedDetail(d), <<>>, NotCalled)
    /\ url' = [url EXCEPT ![r] = u]
    /\ UNCHANGED <<globalVars, scraper, fetched, invoked, sessVars, obsVars, heurVars>>

\* lines 229-245 for a function that is not a coroutine function: the call
\* blocks the event loop, so the whole request is one step
scrape_manager_sync(r, u, fetch) ==
    /\ pc[r] = "idle"
    /\ ~urlparse(u).error
    /\ LET d == Normalize(urlparse(u).netloc)
       IN  /\ d \in DOMAIN STRATEGY_MAP
           /\ ~iscoroutinefunction(STRATEGY_MAP[d])
           /\ domain' = [domain EXCEPT ![r] = d]
           /\ scraper' = [scraper EXCEPT ![r] = STRATEGY_MAP[d]]
           /\ invoked' = [invoked EXCEPT ![r] = STRATEGY_MAP[d]]
           /\ fetched' = [fetched EXCEPT ![r] = <<fetch>>]
           /\ Finish(r, CallSync(STRATEGY_MAP[d], fetch))
    /\ url' = [url EXCEPT ![r] = u]
    /\ UNCHANGED <<globalVars, sessVars, obsVars, heurVars>>

\* the extractor raises e: the except clause of scrape_manager answers
ExtractorRaises(r, e) == Finish(r, Raised(e))

(* ------------------------------------------------------------------ *)
(* get_browser                                                         *)
(* ------------------------------------------------------------------ *)
\* line 42: browser is None or not browser.is_connected()
NeedsLaunch == browser = 0 \/ browser \notin connected

\* lines 229-234 for a coroutine function, then lines 123-124 and 41-42:
\* runs until get_browser suspends in start(), or returns the live browser
\* and the extractor suspends in new_context()
scrape_manager_async(r, u) ==
    /\ pc[r] = "idle"
    /\ ~urlparse(u).error
    /\ LET d == Normalize(urlparse(u).netloc)
       IN  /\ d \in DOMAIN STRATEGY_MAP
           /\ iscoroutinefunction(STRATEGY_MAP[d])
           /\ domain' = [domain EXCEPT ![r] = d]
           /\ scraper' = [scraper EXCEPT ![r] = STRATEGY_MAP[d]]
           /\ invoked' = [invoked EXCEPT ![r] = STRATEGY_MAP[d]]
    /\ url' = [url EXCEPT ![r] = u]
    /\ IF NeedsLaunch
       THEN pc' = [pc EXCEPT ![r] = "start"] /\ UNCHANGED b
       ELSE pc' = [pc EXCEPT ![r] = "new_context"] /\ b' = [b EXCEPT ![r] = browser]
    /\ UNCHANGED <<globalVars, fetched, outVars, context, page, obsVars, heurVars>>

\* line 44: async_playwright().start() completes or raises
playwright_start(r, ok) ==
    /\ pc[r] = "start"
    /\ IF ok
       THEN /\ started' = started + 1
            /\ playwright_instance' = started + 1
            /\ pc' = [pc EXCEPT ![r] = "launch"]
            /\ UNCHANGED outVars
       ELSE /\ ExtractorRaises(r, Exc("Error", <<"async_playwright().start() failed">>))
            /\ UNCHANGED <<started, playwright_instance>>
    /\ UNCHANGED <<browser, launched, connected, dispVars, sessVars, obsVars, heurVars>>

\* the global assigned before the launch is awaited (browser = Browser();
\* await browser.start()): a launch that fails leaves the global naming an
\* engine that never ran
firefox_launch_assign_first(r, ok) ==
    /\ pc[r] = "launch"
    /\ launched' = launched + 1
    /\ browser' = launched + 1
    /\ IF ok
       THEN /\ connected' = connected \cup {launched + 1}
            /\ b' = [b EXCEPT ![r] = launched + 1]
            /\ pc' = [pc EXCEPT ![r] = "new_context"]
            /\ UNCHANGED outVars
       ELSE /\ ExtractorRaises(r, Exc("Error", <<"BrowserType.launch failed">>))
            /\ UNCHANGED <<connected, b>>
    /\ UNCHANGED <<playwright_instance, started, dispVars, context, page, obsVars, heurVars>>

\* lines 46-48: firefox.launch() completes or raises; on completion the
\* global takes the new engine and get_browser returns the global
firefox_launch(r, ok) ==
    /\ pc[r] = "launch"
    /\ IF ok
       THEN /\ launched' = launched + 1
            /\ connected' = connected \cup {launched + 1}
            /\ browser' = launched + 1
            /\ b' = [b EXCEPT ![r] = launched + 1]
            /\ pc' = [pc EXCEPT ![r] = "new_context"]
            /\ UNCHANGED outVars
       ELSE /\ ExtractorRaises(r, Exc("Error", <<"BrowserType.launch failed">>))
            /\ UNCHANGED <<launched, connected, browser, b>>
    /\ UNCHANGED <<playwright_instance, started, dispVars, context, page, obsVars, heurVars>>

\* the environment: an engine crashes or is closed
engine_disconnect(e) ==
    /\ e \in connected
    /\ connected' = connected \ {e}
    /\ UNCHANGED <<browser, playwright_instance, launched, started, pc, dispVars,
                   outVars, sessVars, obsVars, heurVars>>

(* ------------------------------------------------------------------ *)
(* advanced_playwright_scraper                                         *)
(* ------------------------------------------------------------------ *)
\* line 125: b.new_context() completes, or raises
new_context(r, ok) ==
    /\ pc[r] = "new_context"
    /\ ok => b[r] \in connected
    /\ IF ok
       THEN /\ context' = [context EXCEPT ![r] = "open"]
            /\ pc' = [pc EXCEPT ![r] = "new_page"]
            /\ UNCHANGED outVars
       ELSE /\ ExtractorRaises(r, Exc("Error", <<"Browser.new_context failed">>))
            /\ UNCHANGED context
    /\ UNCHANGED <<globalVars, dispVars, b, page, obsVars, heurVars>>

\* page.on("response", ...) written after the navigation instead of before
\* it: goto is awaited with no observer on the page
new_page_goto_unobserved(r, ok) ==
    /\ pc[r] = "new_page"
    /\ ok => b[r] \in connected
    /\ IF ok
       THEN /\ page' = [page EXCEPT ![r] = "open"]
            /\ video_requests' = [video_requests EXCEPT ![r] = <<>>]
            /\ pc' = [pc EXCEPT ![r] = "goto"]
            /\ UNCHANGED <<outVars, observer>>
       ELSE /\ ExtractorRaises(r, Exc("Error", <<"BrowserContext.new_page failed">>))
            /\ UNCHANGED <<page, video_requests, observer>>
    /\ UNCHANGED <<globalVars, dispVars, b, context, observed, late, heurVars>>

\* lines 126-147: context.new_page() completes, the candidate list is made,
\* the observer is registered and goto is awaited; or new_page() raises,
\* which is outside the try block
new_page(r, ok) ==
    /\ pc[r] = "new_page"
    /\ ok => b[r] \in connected
    /\ IF ok
       THEN /\ page' = [page EXCEPT ![r] = "open"]
            /\ video_requests' = [video_requests EXCEPT ![r] = <<>>]
            /\ observer' = [observer EXCEPT ![r] = TRUE]
            /\ pc' = [pc EXCEPT ![r] = "goto"]
            /\ UNCHANGED outVars
       ELSE /\ ExtractorRaises(r, Exc("Error", <<"BrowserContext.new_page failed">>))
            /\ UNCHANGED <<page, video_requests, observer>>
    /\ UNCHANGED <<globalVars, dispVars, b, context, observed, late, heurVars>>

\* where the coroutine is suspended while responses can reach the observer:
\* the observer is never removed, so this lasts until the page is gone
Delivering == {"goto", "title", "click", "settle", "page_close", "context_close"}

\* where it is suspended in the finally block, the settle wait being over
Closing == {"page_close", "context_close"}

\* the candidate list kept in one module-level list that every call shares
handle_response_shared_list(r, response) ==
    /\ pc[r] \in Delivering
    /\ observer[r]
    /\ video_requests' = [q \in Reqs |-> handle_response_body(video_requests[q], response)]
    /\ observed' = [observed EXCEPT ![r] = Append(@, response)]
    /\ late' = [late EXCEPT ![r] =
                    IF pc[r] \in Closing /\ pending[r] = NoExc THEN @ + 1 ELSE @]
    /\ UNCHANGED <<globalVars, pc, dispVars, outVars, sessVars, observer, heurVars>>

\* lines 130-142, one run of the observer
handle_response(r, response) ==
    /\ pc[r] \in Delivering
    /\ observer[r]
    /\ video_requests' = [video_requests EXCEPT ![r] = handle_response_body(@, response)]
    /\ observed' = [observed EXCEPT ![r] = Append(@, response)]
    /\ late' = [late EXCEPT ![r] =
                    IF pc[r] \in Closing /\ pending[r] = NoExc THEN @ + 1 ELSE @]
    /\ UNCHANGED <<globalVars, pc, dispVars, outVars, sessVars, observer, heurVars>>

\* an exception raised inside the try block: the finally block runs with it
EnterFinally(r, e) ==
    /\ pending' = [pending EXCEPT ![r] = e]
    /\ pc' = [pc EXCEPT ![r] = "page_close"]

\* line 147: page.goto() settles, or raises (timeout, DNS, TLS, engine gone)
page_goto(r, ok) ==
    /\ pc[r] = "goto"
    /\ ok => b[r] \in connected
    /\ IF ok
       THEN pc' = [pc EXCEPT ![r] = "title"] /\ UNCHANGED pending
       ELSE EnterFinally(r, Exc("TimeoutError", <<"Page.goto: Timeout 90000ms exceeded.">>))
    /\ UNCHANGED <<globalVars, dispVars, outVars, sessVars, obsVars, title, selector, clicked>>

\* lines 148-162: page.title() completes and the first selector is tried
page_title(r, ok) ==
    /\ pc[r] = "title"
    /\ ok => b[r] \in connected
    /\ IF ok
       THEN /\ title' = [title EXCEPT ![r] = PageTitle]
            /\ selector' = [selector EXCEPT ![r] = 1]
            /\ pc' = [pc EXCEPT ![r] = "click"]
            /\ UNCHANGED pending
       ELSE /\ EnterFinally(r, Exc("Error", <<"Page.title failed">>))
            /\ UNCHANGED <<title, selector>>
    /\ UNCHANGED <<globalVars, dispVars, outVars, sessVars, obsVars, clicked>>

\* the loop without the break of line 164: after a click that succeeds the
\* next selector is tried
page_click_no_break(r, ok) ==
    /\ pc[r] = "click"
    /\ ok => b[r] \in connected
    /\ clicked' = [clicked EXCEPT ![r] = @ \/ ok]
    /\ IF selector[r] < Len(click_selectors)
       THEN /\ selector' = [selector EXCEPT ![r] = @ + 1]
            /\ UNCHANGED pc
       ELSE /\ selector' = [selector EXCEPT ![r] = 0]
            /\ pc' = [pc EXCEPT ![r] = "settle"]
    /\ UNCHANGED <<globalVars, dispVars, outVars, sessVars, obsVars, title, pending>>

\* lines 160-169: page.click(selector) succeeds (break) or raises (next
\* selector); after the loop the settle wait is awaited. The loop variable
\* is dead after the loop and is set back to 0 there.
page_click(r, ok) ==
    /\ pc[r] = "click"
    /\ ok => b[r] \in connected
    /\ IF ok
       THEN /\ clicked' = [clicked EXCEPT ![r] = TRUE]
            /\ selector' = [selector EXCEPT ![r] = 0]
            /\ pc' = [pc EXCEPT ![r] = "settle"]
       ELSE IF selector[r] < Len(click_selectors)
            THEN /\ selector' = [selector EXCEPT ![r] = @ + 1]
                 /\ UNCHANGED <<pc, clicked>>
            ELSE /\ selector' = [selector EXCEPT ![r] = 0]
                 /\ pc' = [pc EXCEPT ![r] = "settle"]
                 /\ UNCHANGED clicked
    /\ UNCHANGED <<globalVars, dispVars, outVars, sessVars, obsVars, title, pending>>

\* lines 169-172: wait_for_timeout() ends; the finally block starts
wait_for_timeout(r, ok) ==
    /\ pc[r] = "settle"
    /\ ok => b[r] \in connected
    /\ IF ok
       THEN pc' = [pc EXCEPT ![r] = "page_close"] /\ UNCHANGED pending
       ELSE EnterFinally(r, Exc("Error", <<"Page.wait_for_timeout failed">>))
    /\ UNCHANGED <<globalVars, dispVars, outVars, sessVars, obsVars, title, selector, clicked>>

\* lines 172-173: page.close() completes and context.close() is awaited; or
\* page.close() raises and leaves the finally block
page_close(r, ok) ==
    /\ pc[r] = "page_close"
    /\ IF ok
       THEN /\ page' = [page EXCEPT ![r] = "closed"]
            /\ pc' = [pc EXCEPT ![r] = "context_close"]
            /\ UNCHANGED outVars
       ELSE /\ ExtractorRaises(r, Exc("Error", <<"Page.close failed">>))
            /\ UNCHANGED page
    /\ UNCHANGED <<globalVars, dispVars, b, context, obsVars, heurVars>>

\* lines 173-188, then 238-245: context.close() completes; the exception in
\* flight goes on, or the candidates are ranked and the result returned
context_close(r, ok) ==
    /\ pc[r] = "context_close"
    /\ IF ok
       THEN /\ context' = [context EXCEPT ![r] = "closed"]
            /\ IF pending[r] # NoExc
               THEN /\ ExtractorRaises(r, pending[r])
                    /\ UNCHANGED video_requests
               ELSE /\ Finish(r, Returned(RankResult(title[r], video_requests[r])))
                    \* line 178 sorts the list in place
                    /\ video_requests' = [video_requests EXCEPT ![r] = SortDesc(@)]
       ELSE /\ ExtractorRaises(r, Exc("Error", <<"BrowserContext.close failed">>))
            /\ UNCHANGED <<context, video_requests>>
    /\ UNCHANGED <<globalVars, dispVars, b, page, observer, observed, late, heurVars>>

(* ------------------------------------------------------------------ *)
(* Specifications                                                      *)
(* ------------------------------------------------------------------ *)
\* the steps of the requests rs, with URLs from us, static pages from ps
\* and at most n responses from rsp delivered to a request
Step(rs, us, ps, rsp, n) ==
    \/ \E r \in rs, u \in us : scrape_manager_invalid(r, u)
    \/ \E r \in rs, u \in us : scrape_manager_unsupported(r, u)
    \/ \E r \in rs, u \in us, fetch \in ps : scrape_manager_sync(r, u, fetch)
    \/ \E r \in rs, u \in us : scrape_manager_async(r, u)
    \/ \E r \in rs, ok \in BOOLEAN : playwright_start(r, ok)
    \/ \E r \in rs, ok \in BOOLEAN : firefox_launch(r, ok)
    \/ \E e \in 1..launched : engine_disconnect(e)
    \/ \E r \in rs, ok \in BOOLEAN : new_context(r, ok)
    \/ \E r \in rs, ok \in BOOLEAN : new_page(r, ok)
    \/ \E r \in rs, response \in rsp :
          Len(observed[r]) < n /\ handle_response(r, response)
    \/ \E r \in rs, ok \in BOOLEAN : page_goto(r, ok)
    \/ \E r \in rs, ok \in BOOLEAN : page_title(r, ok)
    \/ \E r \in rs, ok \in BOOLEAN : page_click(r, ok)
    \/ \E r \in rs, ok \in BOOLEAN : wait_for_timeout(r, ok)
    \/ \E r \in rs, ok \in BOOLEAN : page_close(r, ok)
    \/ \E r \in rs, ok \in BOOLEAN : context_close(r, ok)

\* concurrent requests
Next == Step(Reqs, Urls, Pages, Responses, MaxObserved)
Spec == Init /\ [][Next]_vars

\* one request, many responses
NextRank == Step({1}, Urls, Pages, RankResponses, MaxRankObserved)
SpecRank == Init /\ [][NextRank]_vars

\* one request, many URLs
NextDispatch == Step({1}, DispatchUrls, Pages, Responses, MaxObserved)
SpecDispatch == Init /\ [][NextDispatch]_vars

(* ------------------------------------------------------------------ *)
(* Claims                                                              *)
(* ------------------------------------------------------------------ *)
Finished(r) == pc[r] = "done"

\* the extractor of request r returned (did not raise) a result
ExtractorReturned(r) == Finished(r) /\ ~outcome[r].raised /\ outcome[r].value # <<>>

\* ... and that result has no qualities
ReturnedEmpty(r) == ExtractorReturned(r) /\ outcome[r].value[1].qualities = <<>>

\* the caller of request r receives NoQualitiesFound
NoQualitiesFound(r) == status[r] = 404 /\ detail[r] = NoQualitiesDetail

C2_EmptyQualitiesReported ==
    \A r \in Reqs : ReturnedEmpty(r) => NoQualitiesFound(r)

\* C3: from a cold start and with no engine ever disconnected, any number of
\* get_browser calls launch one engine and all receive that one handle.
C3_SingleLaunch ==
    (connected = 1..launched) =>
        /\ launched <= 1
        /\ \A r, q \in Reqs : (b[r] # 0 /\ b[q] # 0) => b[r] = b[q]

\* C4: when a call of the interception extractor that created a session has
\* ended, its session is closed and its page, if one was opened, is closed.
C4_SessionClosedOnExit ==
    \A r \in Reqs :
        (Finished(r) /\ context[r] # "none") =>
            (context[r] = "closed" /\ page[r] # "open")

\* the failure condition a finished request met, by its cause
Condition(r) ==
    IF urlparse(url[r]).error THEN "invalid input"
    ELSE IF domain[r] \notin RegistryKeys THEN "unsupported site"
    ELSE IF outcome[r].raised THEN "extraction failure"
    ELSE IF ReturnedEmpty(r) THEN "no content found"
    ELSE "none"

\* C5: two requests that met different failure conditions receive different
\* status codes.
C5_DistinctStatuses ==
    \A r, q \in Reqs :
        (/\ Finished(r) /\ Finished(q)
         /\ Condition(r) # "none" /\ Condition(q) # "none"
         /\ Condition(r) # Condition(q)) => status[r] # status[q]

\* the page a static extractor fetched arrived but lacks the JSON-LD block
LacksPattern(r) ==
    /\ Finished(r)
    /\ ~iscoroutinefunction(scraper[r])
    /\ fetched[r] # <<>>
    /\ fetched[r][1].http = "ok"
    /\ fetched[r][1].ld = "absent"

\* C10: a registered static extractor given a page without the expected
\* pattern returns the sentinel title and empty qualities, and the caller
\* receives NoQualitiesFound.
C10_MissingPatternSentinel ==
    \A r \in Reqs :
        LacksPattern(r) =>
            /\ ReturnedEmpty(r)
            /\ outcome[r].value[1].title = "Untitled"
            /\ NoQualitiesFound(r)

\* the interception extractor of request r returned a result
Ranked(r) == ExtractorReturned(r) /\ invoked[r] = "advanced_playwright_scraper"

\* the qualities that extractor returned
ReturnedQualities(r) == outcome[r].value[1].qualities

\* a response is a media candidate: by its URL or by its content type
IsMediaCandidate(response) == is_video_url(response) \/ is_video_type(response)

\* the declared size of a response, zero when absent or unparsable
SizeOrZero(response) ==
    IF declared_size(response).ok THEN declared_size(response).val ELSE 0

\* for every response of the model: is it a media candidate, and its size
Judged ==
    [response \in RankResponses \cup Responses |->
        [candidate |-> IsMediaCandidate(response), size |-> SizeOrZero(response)]]

\* the candidates among obs whose size is at least min, as stored entries
RECURSIVE KeptAtLeast(_, _)
KeptAtLeast(obs, min) ==
    IF obs = <<>> THEN <<>>
    ELSE LET last == obs[Len(obs)]
             rest == KeptAtLeast(SubSeq(obs, 1, Len(obs) - 1), min)
         IN  IF Judged[last].candidate /\ Judged[last].size >= min
             THEN Append(rest, [url |-> last.url, size |-> Judged[last].size])
             ELSE rest

\* the same elements, each as often
SameBag(s, t) ==
    /\ Len(s) = Len(t)
    /\ \A i \in 1..Len(s) :
          Cardinality({j \in 1..Len(s) : s[j] = s[i]})
            = Cardinality({j \in 1..Len(t) : t[j] = s[i]})

\* the candidate list of r holds the candidates of size >= min it observed
StoredAreKept(r, min) ==
    IF Finished(r)
    THEN SameBag(video_requests[r], KeptAtLeast(observed[r], min))
    ELSE video_requests[r] = KeptAtLeast(observed[r], min)

\* C6 as stated: a candidate is stored exactly when its declared size is not
\* below 100000.
C6_StoredIffNotBelow == \A r \in Reqs : StoredAreKept(r, MinSize)

\* C6 as amended: a candidate is stored exactly when its declared size is
\* greater than 100000 (absent or unparsable counts as zero), and every URL
\* of the returned qualities is the URL of such a candidate.
C6_StoredIffAbove ==
    \A r \in Reqs :
        /\ StoredAreKept(r, MinSize + 1)
        /\ Ranked(r) =>
              \A m \in 1..Len(ReturnedQualities(r)) :
                  \E i \in 1..Len(observed[r]) :
                      /\ observed[r][i].url = ReturnedQualities(r)[m][2]
                      /\ Judged[observed[r][i]].candidate
                      /\ Judged[observed[r][i]].size > MinSize

\* a result was returned after a candidate below the threshold and one of
\* exactly 100000 bytes were observed
C6_Witness ==
    \E r \in Reqs :
        /\ Ranked(r)
        /\ status[r] = 200
        /\ \E i, j \in 1..Len(observed[r]) :
              /\ observed[r][i] = R_a_small
              /\ observed[r][j] = R_d_webm

\* C7: the result has min(k, 3) entries, the URLs of the three largest of
\* the k captured candidates in order of descending size (checked where
\* those candidates have pairwise different URLs).
C7_TopThreeEntries ==
    \A r \in Reqs :
        (/\ Ranked(r)
         /\ \A i, j \in 1..Len(Top(video_requests[r])) :
               i # j => video_requests[r][i].url # video_requests[r][j].url) =>
            LET top == Top(video_requests[r])
            IN  /\ Len(ReturnedQualities(r)) = Len(top)
                /\ \A m \in 1..Len(top) : ReturnedQualities(r)[m][2] = top[m].url

\* the rank of the i-th captured candidate by descending size, earlier first
\* among equals
RankOf(vr, i) ==
    1 + Cardinality({j \in 1..Len(vr) :
                        \/ vr[j].size > vr[i].size
                        \/ (vr[j].size = vr[i].size /\ j < i)})

\* C8: a returned candidate whose URL has the .m3u8 marker is labeled
\* "HLS Playlist" whatever its rank; any other returned candidate is labeled
\* "Quality r", r its rank by descending size, and every candidate without
\* the marker among the first three is returned under that label.
C8_Labels ==
    \A r \in Reqs :
        Ranked(r) =>
            LET q  == ReturnedQualities(r)
                vr == video_requests[r]
            IN  /\ \A m \in 1..Len(q) :
                      IF Contains(q[m][2], EXT_M3U8)
                      THEN q[m][1] = HLS
                      ELSE \E i \in 1..Len(vr) :
                              /\ vr[i].url = q[m][2]
                              /\ q[m][1] = Quality(RankOf(vr, i))
                /\ \A i \in 1..Len(vr) :
                      (RankOf(vr, i) <= TopN /\ ~Contains(vr[i].url, EXT_M3U8)) =>
                          \E m \in 1..Len(q) : q[m] = <<Quality(RankOf(vr, i)), vr[i].url>>

\* a playlist is the third largest candidate and is returned as
\* "HLS Playlist" after "Quality 1" and "Quality 2"
C8_Witness ==
    \E r \in Reqs :
        /\ Ranked(r)
        /\ ReturnedQualities(r) =
              << <<Quality(1), R_a_video.url>>, <<Quality(2), R_a_video.url>>,
                 <<HLS, R_c_m3u8.url>> >>

\* C9: when at least one candidate was captured, the URL of a candidate of
\* the largest declared size is among the returned qualities.
C9_LargestReturned ==
    \A r \in Reqs :
        (Ranked(r) /\ video_requests[r] # <<>>) =>
            \E i \in 1..Len(video_requests[r]) :
                /\ \A j \in 1..Len(video_requests[r]) :
                      video_requests[r][j].size <= video_requests[r][i].size
                /\ \E m \in 1..Len(ReturnedQualities(r)) :
                      ReturnedQualities(r)[m][2] = video_requests[r][i].url

\* request r was for a host of the registry
Registered(r) == ~urlparse(url[r]).error /\ domain[r] \in RegistryKeys

\* C11: every exception a resolved extractor raises (static or interception,
\* navigation failure included) reaches the caller as ExtractionFailed, the
\* 500 of line 245 whose detail is the exception's message; a finished
\* request for a registered host has a result (200) or that error, and a
\* result only when the extractor returned one.
C11_ExtractorFaultsReported ==
    \A r \in Reqs :
        (Finished(r) /\ Registered(r)) =>
            /\ invoked[r] = STRATEGY_MAP[domain[r]]
            /\ status[r] \in {200, 500}
            /\ outcome[r].raised =>
                  /\ status[r] = 500
                  /\ detail[r] = outcome[r].exc.msg
                  /\ result[r] = <<>>
            /\ status[r] = 200 =>
                  /\ ExtractorReturned(r)
                  /\ result[r] = outcome[r].value

\* a navigation failure has been reported with its message, after the page
\* and the session were closed
C11_Witness ==
    \E r \in Reqs :
        /\ Finished(r)
        /\ Registered(r)
        /\ outcome[r].raised /\ outcome[r].exc.type = "TimeoutError"
        /\ status[r] = 500
        /\ detail[r] = <<"Page.goto: Timeout 90000ms exceeded.">>

\* the site identity the registry is keyed by: the host in lower case with
\* one leading "www." removed
SiteIdentity(host) ==
    LET h == str_lower(host)
    IN  IF StartsAt(h, WWW, 1) THEN SubSeq(h, Len(WWW) + 1, Len(h)) ELSE h

\* request r was resolved to a registry entry
Resolved(r) == scraper[r] # "none"

\* C12: a URL is resolved to a registry entry exactly when its host, in
\* lower case and with a single leading "www." removed, is a registry key.
C12_ExactMatchNormalized ==
    \A r \in Reqs :
        (pc[r] # "idle" /\ ~urlparse(url[r]).error) =>
            (Resolved(r) <=> SiteIdentity(urlparse(url[r]).netloc) \in RegistryKeys)

\* the raw URL does not parse into a URL with a host
Malformed(u) == urlparse(u).error \/ urlparse(u).netloc = <<>>

\* C13: a request with a malformed raw URL ends in InvalidInput (the 400 of
\* line 224), with no registry entry resolved and no extractor called.
C13_MalformedIsInvalidInput ==
    \A r \in Reqs :
        (pc[r] # "idle" /\ Malformed(url[r])) =>
            /\ Finished(r)
            /\ status[r] = 400
            /\ detail[r] = InvalidUrlDetail
            /\ ~Resolved(r)
            /\ invoked[r] = "none"

\* the responses delivered to the observer of r up to the end of the settle
\* wait
InTime(r) == SubSeq(observed[r], 1, Len(observed[r]) - late[r])

\* every returned URL is the URL of a candidate captured in time
OnlyInTimeReturned(r) ==
    \A m \in 1..Len(ReturnedQualities(r)) :
        \E i \in 1..Len(InTime(r)) :
            /\ InTime(r)[i].url = ReturnedQualities(r)[m][2]
            /\ Judged[InTime(r)[i]].candidate
            /\ Judged[InTime(r)[i]].size > MinSize

\* C14: the returned qualities hold only candidates captured up to the end
\* of the settle wait, never a response delivered while the page and the
\* session are being closed; and once the candidates are ranked the list
\* is not changed any more.
C14_OnlySettledCandidatesRanked ==
    /\ [](\A r \in Reqs : Ranked(r) => OnlyInTimeReturned(r))
    /\ [][\A r \in Reqs : Finished(r) => video_requests'[r] = video_requests[r]]_vars

LaunchErrors ==
    {<<"async_playwright().start() failed">>, <<"BrowserType.launch failed">>}

\* the get_browser call of request r failed in the launch
LaunchFailed(r) ==
    Finished(r) /\ outcome[r].raised /\ outcome[r].exc.msg \in LaunchErrors

\* C15: a launch that fails inside get_browser propagates to the caller (who
\* gets no handle and the launch error), and leaves the shared handle as it
\* was: the handle only ever names an engine whose launch completed, a call
\* returns the cached handle only while that engine is connected, and
\* otherwise launches afresh.
C15_FailedLaunchLeavesHandle ==
    /\ [](\A r \in Reqs :
            LaunchFailed(r) =>
                /\ status[r] = 500
                /\ detail[r] = outcome[r].exc.msg
                /\ b[r] = 0 /\ context[r] = "none" /\ page[r] = "none")
    /\ [](browser # 0 => browser \in 1..launched)
    /\ [][\A r \in Reqs :
            (pc[r] \in {"start", "launch"} /\ pc'[r] = "done") =>
                (browser' = browser /\ launched' = launched /\ connected' = connected)]_vars
    /\ [][\A r \in Reqs :
            (pc[r] = "idle" /\ pc'[r] = "new_context") =>
                (b'[r] = browser /\ browser \in connected)]_vars
    /\ [][\A r \in Reqs :
            (pc[r] = "idle" /\ pc'[r] = "start") =>
                (browser = 0 \/ browser \notin connected)]_vars

\* one call failed in the launch and left the handle unset; another call
\* launched the only engine and holds it, live
C15_Witness ==
    \E r, q \in Reqs :
        /\ LaunchFailed(r)
        /\ outcome[r].exc.msg = <<"BrowserType.launch failed">>
        /\ launched = 1 /\ started = 2
        /\ browser = 1 /\ browser \in connected
        /\ b[q] = browser
        /\ context[q] = "open"

\* every URL request r returned is the URL of a response its own observer saw
OwnResponsesOnly(r) ==
    \A m \in 1..Len(ReturnedQualities(r)) :
        \E i \in 1..Len(observed[r]) : observed[r][i].url = ReturnedQualities(r)[m][2]

\* C16: with several interception extractions in flight on the shared
\* engine, the qualities an extraction returns come from the responses
\* delivered in its own session, its candidate list holds what its own
\* observer stored, and a step that closes the page or session of one
\* extraction leaves every other extraction's page, session and candidate
\* list as they were.
C16_SessionsIsolated ==
    /\ [](\A r \in Reqs :
            /\ Ranked(r) => OwnResponsesOnly(r)
            /\ StoredAreKept(r, MinSize + 1))
    /\ [][\A r, q \in Reqs :
            (r # q /\ (context'[r] # context[r] \/ page'[r] # page[r])) =>
                /\ context'[q] = context[q]
                /\ page'[q] = page[q]
                /\ video_requests'[q] = video_requests[q]]_vars

\* two extractions on the one engine have both returned; each saw a
\* candidate the other did not, and each returned its own
C16_Witness ==
    \E r, q \in Reqs :
        /\ Ranked(r) /\ Ranked(q)
        /\ b[r] = b[q]
        /\ observed[r] = <<R_a_video>>
        /\ observed[q] = <<R_c_m3u8>>
        /\ ReturnedQualities(r) = << <<Quality(1), R_a_video.url>> >>
        /\ ReturnedQualities(q) = << <<HLS, R_c_m3u8.url>> >>
        /\ context[r] = "closed" /\ context[q] = "closed"

\* a static extractor was called for request r and the page it fetched has
\* the embedded JSON block with a name and a non-empty contentUrl
HasBlock(r) ==
    /\ Finished(r)
    /\ Resolved(r)
    /\ ~iscoroutinefunction(scraper[r])
    /\ fetched[r] # <<>>
    /\ fetched[r][1].http = "ok"
    /\ fetched[r][1].ld = "object"
    /\ {"name", "contentUrl"} \subseteq DOMAIN fetched[r][1].data
    /\ fetched[r][1].data["contentUrl"] # <<>>

\* C17: for a page with the embedded JSON block, name = n and a non-empty
\* contentUrl = X, the static extractor returns title n and the qualities
\* {"HLS Playlist": X} and nothing else, and the caller receives that result.
C17_JsonBlockResult ==
    \A r \in Reqs :
        HasBlock(r) =>
            /\ ExtractorReturned(r)
            /\ outcome[r].value[1].title = fetched[r][1].data["name"]
            /\ outcome[r].value[1].qualities =
                  << <<HLS, fetched[r][1].data["contentUrl"]>> >>
            /\ status[r] = 200
            /\ result[r] = outcome[r].value

\* the xhamster extractor has returned "Clip" with the playlist X
C17_Witness ==
    \E r \in Reqs :
        /\ HasBlock(r)
        /\ invoked[r] = "scrape_xhamster_direct"
        /\ status[r] = 200
        /\ result[r][1].title = "Clip"
        /\ result[r][1].qualities = << <<HLS, <<"X">> >> >>

\* C18: every key of the registry maps to an extractor the program defines:
\* the registry value a successful lookup resolves to is one of the static
\* extractors or the interception extractor of app.py.
C18_RegistryValuesExist ==
    \A r \in Reqs :
        Resolved(r) =>
            /\ scraper[r] = STRATEGY_MAP[domain[r]]
            /\ scraper[r] \in DefinedExtractors

\* C19: the selectors are tried in the order of the list, starting with the
\* first; a click that succeeds ends the heuristic, so at most one succeeds
\* and none is tried after it; whatever the attempts do, the call goes on
\* to the settle wait with no exception in flight and no outcome yet.
C19_ClickHeuristic ==
    /\ [](\A r \in Reqs :
            /\ pc[r] = "click" => (selector[r] \in 1..Len(click_selectors) /\ ~clicked[r])
            /\ clicked[r] => pc[r] \in {"settle", "page_close", "context_close", "done"})
    /\ [][\A r \in Reqs :
            /\ (pc[r] # "click" /\ pc'[r] = "click") => selector'[r] = 1
            /\ (pc[r] = "click" /\ pc'[r] = "click") =>
                  (selector'[r] = selector[r] \/ selector'[r] = selector[r] + 1)
            /\ (pc[r] = "click" /\ pc'[r] # "click") =>
                  /\ pc'[r] = "settle"
                  /\ clicked'[r] \/ selector[r] = Len(click_selectors)
                  /\ pending'[r] = NoExc
                  /\ outcome'[r] = NotCalled /\ status'[r] = 0
            /\ clicked'[r] # clicked[r] =>
                  (pc[r] = "click" /\ pc'[r] = "settle" /\ clicked'[r])]_vars

\* every selector was tried, none could be clicked, and the call returned
\* its result all the same
C19_Witness ==
    \E r \in Reqs :
        /\ Ranked(r)
        /\ ~clicked[r]
        /\ status[r] = 200
        /\ ReturnedQualities(r) # <<>>

\* the navigation of request r to its URL has begun
NavigationBegun(r) == pc[r] \in Delivering \/ (Finished(r) /\ page[r] # "none")

\* C20: the response observer is on the page before the navigation to the
\* target URL begins: from the moment goto is awaited, and for as long as
\* the page can receive responses, the observer is registered, and it was
\* not registered on anything before the page existed.
C20_ObserverBeforeNavigation ==
    \A r \in Reqs :
        /\ NavigationBegun(r) => observer[r]
        /\ observer[r] => page[r] # "none"
        /\ observed[r] # <<>> => observer[r]

\* a response that arrived while goto was still pending has been handed to
\* the observer and stored
C20_Witness ==
    \E r \in Reqs :
        /\ pc[r] = "goto"
        /\ observer[r]
        /\ observed[r] = <<R_a_video>>
        /\ Len(video_requests[r]) = 1

====
